---- MODULE Spec2Model ----
(***************************************************************************)
(* Model of script/generate_compact_rates.py: the generator that packs a   *)
(* mapping bps -> per-second rate into a bytes constant, and the Conv      *)
(* contract it emits (turn, rtob, _rpow).                                  *)
(*                                                                         *)
(* Python integers are unbounded and EVM words are 256 bits wide; both are *)
(* wider than the integers of the model checker.  Naturals are therefore   *)
(* kept as sequences of bytes, least significant byte first, without       *)
(* leading zero bytes (so equal numbers are equal sequences), and the      *)
(* arithmetic below is exact at the program's own widths and constants.    *)
(***************************************************************************)
EXTENDS Integers, Sequences, FiniteSets, TLC

-----------------------------------------------------------------------------
(* Natural-number arithmetic on byte sequences.  Every recursion splits its *)
(* range in two, which keeps the evaluation depth logarithmic.              *)

Base == 256

MaxOf(m, n) == IF m >= n THEN m ELSE n

MinOf(m, n) == IF m <= n THEN m ELSE n

Digit(a, i) == IF i >= 1 /\ i <= Len(a) THEN a[i] ELSE 0

Reverse(s) == [i \in 1..Len(s) |-> s[Len(s) + 1 - i]]

\* index of the most significant non-zero digit among a[lo..hi], 0 if none
RECURSIVE HighDigit(_, _, _)
HighDigit(a, lo, hi) ==
    IF lo > hi THEN 0
    ELSE IF lo = hi THEN (IF a[lo] # 0 THEN lo ELSE 0)
    ELSE LET mid == (lo + hi) \div 2
             up  == HighDigit(a, mid + 1, hi)
         IN  IF up # 0 THEN up ELSE HighDigit(a, lo, mid)

Norm(a) == SubSeq(a, 1, HighDigit(a, 1, Len(a)))

RECURSIVE FromInt(_)
FromInt(n) == IF n = 0 THEN <<>> ELSE <<n % Base>> \o FromInt(n \div Base)

RECURSIVE ToInt(_)
ToInt(a) == IF a = <<>> THEN 0 ELSE a[1] + Base * ToInt(Tail(a))

RECURSIVE CmpRange(_, _, _, _)
CmpRange(a, b, lo, hi) ==
    IF lo > hi THEN 0
    ELSE IF lo = hi THEN (IF a[lo] < b[lo] THEN -1 ELSE IF a[lo] > b[lo] THEN 1 ELSE 0)
    ELSE LET mid == (lo + hi) \div 2
             up  == CmpRange(a, b, mid + 1, hi)
         IN  IF up # 0 THEN up ELSE CmpRange(a, b, lo, mid)

Cmp(a, b) ==
    IF Len(a) < Len(b) THEN -1
    ELSE IF Len(a) > Len(b) THEN 1
    ELSE CmpRange(a, b, 1, Len(a))

Lt(a, b) == Cmp(a, b) < 0

Le(a, b) == Cmp(a, b) <= 0

\* <<digits lo..hi, carry out>> of the column values cols[lo..hi], carry c coming in
RECURSIVE Carry(_, _, _, _)
Carry(cols, lo, hi, c) ==
    IF lo > hi THEN <<<<>>, c>>
    ELSE IF lo = hi THEN <<<<(cols[lo] + c) % Base>>, (cols[lo] + c) \div Base>>
    ELSE LET mid == (lo + hi) \div 2
             low == Carry(cols, lo, mid, c)
             up  == Carry(cols, mid + 1, hi, low[2])
         IN  <<low[1] \o up[1], up[2]>>

Digits(cols, n) == LET r == Carry(cols, 1, n, 0) IN Norm(r[1] \o FromInt(r[2]))

Add(a, b) ==
    LET n == MaxOf(Len(a), Len(b))
    IN  Digits([i \in 1..n |-> Digit(a, i) + Digit(b, i)], n)

\* a - b for a >= b, as a + (Base^n - 1 - b) + 1 with the carry out of digit n dropped
Sub(a, b) ==
    LET n == Len(a)
        r == Carry([i \in 1..n |-> a[i] + (Base - 1 - Digit(b, i))], 1, n, 1)
    IN  Norm(r[1])

MulSmall(a, k) == Digits([i \in 1..Len(a) |-> a[i] * k], Len(a))

\* sum of a[i] * b[k + 1 - i] for i in lo..hi: column k of the product
RECURSIVE ColSum(_, _, _, _, _)
ColSum(a, b, k, lo, hi) ==
    IF lo > hi THEN 0
    ELSE IF lo = hi THEN a[lo] * b[k + 1 - lo]
    ELSE LET mid == (lo + hi) \div 2
         IN  ColSum(a, b, k, lo, mid) + ColSum(a, b, k, mid + 1, hi)

Mul(a, b) ==
    IF a = <<>> \/ b = <<>> THEN <<>>
    ELSE LET n == Len(a) + Len(b) - 1
         IN  Digits([k \in 1..n |->
                        ColSum(a, b, k, MaxOf(1, k + 1 - Len(b)), MinOf(k, Len(a)))], n)

\* the three digits of a above digit k, as an integer
Top(a, k) == Digit(a, k + 1) + Base * Digit(a, k + 2) + Base * Base * Digit(a, k + 3)

\* the largest q' <= q with b * q' <= r
RECURSIVE Fit(_, _, _)
Fit(r, b, q) == IF Le(MulSmall(b, q), r) THEN q ELSE Fit(r, b, q - 1)

\* floor(r / b) for r < Base * b, from an estimate on the leading digits
QDigit(r, b) ==
    IF Lt(r, b) THEN 0
    ELSE LET k == MaxOf(Len(b) - 2, 0)
         IN  Fit(r, b, MinOf(Top(r, k) \div Top(b, k), Base - 1))

\* long division of the digits a[hi], ..., a[lo] by b with remainder r coming in:
\* <<quotient digits, most significant first, remainder out>>
RECURSIVE DivRange(_, _, _, _, _)
DivRange(a, b, lo, hi, r) ==
    IF lo > hi THEN <<<<>>, r>>
    ELSE IF lo = hi
    THEN LET r1 == Norm(<<a[lo]>> \o r)
             d  == QDigit(r1, b)
         IN  <<<<d>>, Sub(r1, MulSmall(b, d))>>
    ELSE LET mid == (lo + hi) \div 2
             up  == DivRange(a, b, mid + 1, hi, r)
             low == DivRange(a, b, lo, mid, up[2])
         IN  <<up[1] \o low[1], low[2]>>

\* <<floor(a / b), a mod b>> for b # 0
DivMod(a, b) ==
    LET qr == DivRange(a, b, 1, Len(a), <<>>) IN <<Norm(Reverse(qr[1])), qr[2]>>

Div(a, b) == DivMod(a, b)[1]

Mod(a, b) == DivMod(a, b)[2]

\* k^e by squaring
RECURSIVE Pow(_, _)
Pow(k, e) ==
    IF e = 0 THEN <<1>>
    ELSE LET h == Pow(k, e \div 2)
         IN  IF e % 2 = 0 THEN Mul(h, h) ELSE MulSmall(Mul(h, h), k)

\* the number written with the decimal digits ds[lo..hi], most significant first
RECURSIVE FromDecRange(_, _, _)
FromDecRange(ds, lo, hi) ==
    IF lo > hi THEN <<>>
    ELSE IF lo = hi THEN FromInt(ds[lo])
    ELSE LET mid == (lo + hi) \div 2
         IN  Add(Mul(FromDecRange(ds, lo, mid), Pow(10, hi - mid)),
                 FromDecRange(ds, mid + 1, hi))

FromDec(ds) == FromDecRange(ds, 1, Len(ds))

-----------------------------------------------------------------------------
(* Python's integers (generate_contract): a sign and a magnitude.           *)

\* a - b for naturals a and b
pySub(a, b) ==
    IF Le(b, a) THEN [neg |-> FALSE, mag |-> Sub(a, b)]
    ELSE [neg |-> TRUE, mag |-> Sub(b, a)]

\* n >= m for a Python integer n and a natural m
pyGe(n, m) == ~n.neg /\ Le(m, n.mag)

TwoTo64 == Pow(2, 64)

\* n & ((1 << 64) - 1): Python's & on a negative integer is two's complement,
\* so the result is n modulo 2^64
pyMask64(n) ==
    IF n.neg THEN Mod(Sub(TwoTo64, Mod(n.mag, TwoTo64)), TwoTo64)
    ELSE Mod(n.mag, TwoTo64)

\* the hexadecimal digits of v, most significant first, two per byte
HexDigits(v) ==
    [k \in 1..2 * Len(v) |->
        LET byte == v[Len(v) - (k - 1) \div 2]
        IN  IF k % 2 = 1 THEN byte \div 16 ELSE byte % 16]

\* format(v, '016x'): lower-case hex without leading zeros, left-padded with '0'
\* to at least 16 characters; a character is modelled by its digit value
format016x(v) ==
    LET h == HexDigits(v)
        d == IF h # <<>> /\ h[1] = 0 THEN Tail(h) ELSE h
    IN  [i \in 1..MaxOf(16 - Len(d), 0) |-> 0] \o d

int_to_bytes8(n) == format016x(pyMask64(n))

\* sorted(rates.keys())
RECURSIVE sorted(_)
sorted(S) ==
    IF S = {} THEN <<>>
    ELSE LET m == CHOOSE k \in S : \A j \in S : k <= j
         IN  <<m>> \o sorted(S \ {m})

\* "".join(strs) for the strings strs[lo..hi]
RECURSIVE join(_, _, _)
join(strs, lo, hi) ==
    IF lo > hi THEN <<>>
    ELSE IF lo = hi THEN strs[lo]
    ELSE LET mid == (lo + hi) \div 2
         IN  join(strs, lo, mid) \o join(strs, mid + 1, hi)

RAY == Pow(10, 27)

\* generate_contract raised (IndexError on an empty mapping, ValueError on a
\* difference of 2^64 or more): main prints nothing
Raised == [ok |-> FALSE, MAX |-> 0, RATES |-> <<>>]

\* generate_contract, for the parsed mapping rates: the two values the template
\* takes from it, MAX ({end_bps}) and the hex string of RATES ({compact_bytes})
generate_contract(rates) ==
    LET sorted_bps == sorted(DOMAIN rates)
        n          == Len(sorted_bps)
        \* the loops: i in range(0, n, 4), j in range(4); p = i + j
        adjusted_rate(p) == pySub(rates[sorted_bps[p + 1]], RAY)
        hex_rate(p) == IF p < n THEN int_to_bytes8(adjusted_rate(p))
                       ELSE [k \in 1..16 |-> 0]
        count      == 4 * ((n + 3) \div 4)
        all_bytes  == [q \in 1..count |-> hex_rate(q - 1)]
    IN  IF n = 0 THEN Raised
        ELSE IF \E p \in 0..n - 1 : pyGe(adjusted_rate(p), TwoTo64) THEN Raised
        ELSE [ok |-> TRUE, MAX |-> sorted_bps[n], RATES |-> join(all_bytes, 1, count)]

-----------------------------------------------------------------------------
(* The EVM's 256-bit word operations used by the emitted assembly.          *)

WordBytes == 32

TwoTo256 == Pow(2, 8 * WordBytes)

\* the low 256 bits
Wrap(a) == Norm(SubSeq(a, 1, MinOf(Len(a), WordBytes)))

mul(a, b) == Wrap(Mul(a, b))

add(a, b) == Wrap(Add(a, b))

sub(a, b) == IF Le(b, a) THEN Sub(a, b) ELSE Sub(Add(a, TwoTo256), b)

div(a, b) == IF b = <<>> THEN <<>> ELSE Div(a, b)

mod(a, b) == IF b = <<>> THEN <<>> ELSE Mod(a, b)

shr(bits, value) ==
    IF Le(FromInt(8 * WordBytes), bits) THEN <<>> ELSE Div(value, Pow(2, ToInt(bits)))

\* and(value, 0xFFFFFFFFFFFFFFFF): the mask is 2^64 - 1, so the low 64 bits
and64(value) == Mod(value, TwoTo64)

\* the bytes of the literal hex"...": one byte per two hex digits
hexLiteral(h) == [i \in 1..Len(h) \div 2 |-> 16 * h[2 * i - 1] + h[2 * i]]

\* sload(add(dataSlot, wordPos)): a bytes value of 32 bytes or more is stored from
\* slot keccak256(RATES.slot) on, 32 bytes per slot, the first byte in the most
\* significant position; a slot never written reads as zero
sload(RATES, wordPos) ==
    LET data == hexLiteral(RATES)
        at(i) == IF i <= Len(data) THEN data[i] ELSE 0
        w     == ToInt(wordPos)
    IN  Norm([k \in 1..WordBytes |-> at(WordBytes * w + WordBytes + 1 - k)])

-----------------------------------------------------------------------------
(* Conv: the emitted contract.                                              *)

\* a reverted call: no return value
Revert == [ok |-> FALSE, val |-> <<>>]

Return(v) == [ok |-> TRUE, val |-> v]

\* turn with the range check written bps < MAX
turnOffByOne(c, bps) ==
    IF ~(bps < c.MAX) THEN Revert
    ELSE LET offset  == mul(FromInt(bps), FromInt(8))
             wordPos == div(offset, FromInt(32))
             bytePos == mod(offset, FromInt(32))
             value   == sload(c.RATES, wordPos)
             shifted == shr(mul(sub(FromInt(24), bytePos), FromInt(8)), value)
         IN  Return(add(and64(shifted), RAY))

\* turn(bps) of the contract emitted with the constants of c
turn(c, bps) ==
    IF ~(bps <= c.MAX) THEN Revert
    ELSE LET offset  == mul(FromInt(bps), FromInt(8))
             wordPos == div(offset, FromInt(32))
             bytePos == mod(offset, FromInt(32))
             value   == sload(c.RATES, wordPos)
             shifted == shr(mul(sub(FromInt(24), bytePos), FromInt(8)), value)
         IN  Return(add(and64(shifted), RAY))

\* 365 days, in seconds
Year == 365 * 86400

\* let half := div(RAY, 2)
half == div(RAY, FromInt(2))

\* iszero(eq(div(xx, x), x)): the squaring overflowed
squareOverflow(xx, x) == div(xx, x) # x

\* the product's overflow check left out
productOverflowUnchecked(zx, x, z) == FALSE

\* and(iszero(iszero(x)), iszero(eq(div(zx, x), z))): the product overflowed
productOverflow(zx, x, z) == x # <<>> /\ div(zx, x) # z

\* lt(xxRound, xx): the rounding addition wrapped
roundOverflow(rounded, product) == Lt(rounded, product)

\* the for loop of _rpow, entered with n already halved
RECURSIVE rpowLoop(_, _, _)
rpowLoop(x, n, z) ==
    IF n = 0 THEN Return(z)
    ELSE LET xx      == mul(x, x)
             xxRound == add(xx, half)
             x1      == div(xxRound, RAY)
         IN  IF squareOverflow(xx, x) THEN Revert
             ELSE IF roundOverflow(xxRound, xx) THEN Revert
             ELSE IF n % 2 = 1
             THEN LET zx      == mul(z, x1)
                      zxRound == add(zx, half)
                  IN  IF productOverflow(zx, x1, z) THEN Revert
                      ELSE IF roundOverflow(zxRound, zx) THEN Revert
                      ELSE rpowLoop(x1, n \div 2, div(zxRound, RAY))
             ELSE rpowLoop(x1, n \div 2, z)

\* _rpow with the loop entered on n instead of div(n, 2)
rpowNotHalved(x, n) ==
    IF x = <<>>
    THEN Return(IF n = 0 THEN RAY ELSE <<>>)
    ELSE rpowLoop(x, n, IF n % 2 = 0 THEN RAY ELSE x)

_rpow(x, n) ==
    IF x = <<>>
    THEN Return(IF n = 0 THEN RAY ELSE <<>>)
    ELSE rpowLoop(x, n \div 2, IF n % 2 = 0 THEN RAY ELSE x)

\* the scale of basis points: rtob uses BPS, which the template never declares
BPS == FromInt(10000)

\* rtob without the RAY / 2 added before the division
rtobTruncating(ray) ==
    LET yearlyRate == _rpow(ray, Year)
    IN  IF ~yearlyRate.ok THEN Revert
        ELSE IF Lt(yearlyRate.val, RAY) THEN Revert
        ELSE LET scaled == Mul(Sub(yearlyRate.val, RAY), BPS)
             IN  IF Le(TwoTo256, scaled) THEN Revert
                 ELSE Return(Div(scaled, RAY))

\* rtob(ray): Solidity 0.8 arithmetic, every operation checked (a panic reverts)
rtob(ray) ==
    LET yearlyRate == _rpow(ray, Year)
    IN  IF ~yearlyRate.ok THEN Revert
        ELSE IF Lt(yearlyRate.val, RAY) THEN Revert
        ELSE LET scaled  == Mul(Sub(yearlyRate.val, RAY), BPS)
                 rounded == Add(scaled, Div(RAY, FromInt(2)))
             IN  IF Le(TwoTo256, scaled) THEN Revert
                 ELSE IF Le(TwoTo256, rounded) THEN Revert
                 ELSE Return(Div(rounded, RAY))

-----------------------------------------------------------------------------
(* Inputs.                                                                  *)

\* the largest bps key of an input mapping
MaxBps == 4

\* the largest exponent _rpow is applied to directly
MaxExp == 6

Keys == 0..MaxBps

\* bps arguments of turn: every key, and two values past the largest
BpsArgs == 0..MaxBps + 2

\* rate - RAY of the per-second rate that compounds to b bps a year
\* (floor(10^27 * (1 + b / 10000)^(1 / 31536000)) - 10^27), for b = 0..8
YearlyDeltas ==
    << <<>>,
       <<3,1,7,0,8,2,0,6,5,9,9,9,0,7,0,4>>,
       <<6,3,4,1,3,2,4,2,8,5,4,8,0,1,1,1>>,
       <<9,5,1,1,5,1,0,9,3,9,8,5,9,2,7,1>>,
       <<1,2,6,8,1,3,8,0,6,8,6,5,0,0,2,2,6>>,
       <<1,5,8,5,0,9,3,3,5,8,8,7,5,6,0,1,3>>,
       <<1,9,0,2,0,1,6,9,7,0,9,9,6,0,6,7,6>>,
       <<2,2,1,8,9,0,8,9,1,1,3,4,2,9,2,6,7>>,
       <<2,5,3,5,7,6,9,1,8,6,2,4,5,7,8,6,3>> >>

\* the rate a well-formed mapping gives for b bps
Rate(b) ==
    IF b < Len(YearlyDeltas) THEN Add(RAY, FromDec(YearlyDeltas[b + 1]))
    ELSE Add(RAY, MulSmall(FromDec(YearlyDeltas[2]), b))

\* rates at the edges of the 64-bit field: 0 and RAY - 1 (below unity),
\* RAY + 2^64 - 1 (the largest that fits), RAY + 2^64 and RAY + 2^64 + 5 (too large)
EdgeRates ==
    { <<>>, Sub(RAY, FromInt(1)), Add(RAY, Sub(TwoTo64, FromInt(1))),
      Add(RAY, TwoTo64), Add(RAY, Add(TwoTo64, FromInt(5))) }

WellFormed(S) == [b \in S |-> Rate(b)]

\* every set of keys (also empty, with gaps, or not starting at 0) with well-formed
\* rates, and the same with one rate replaced by an edge rate
Mappings ==
    { WellFormed(S) : S \in SUBSET Keys }
    \cup UNION { { [WellFormed(S) EXCEPT ![k] = v] : k \in S, v \in EdgeRates } :
                 S \in SUBSET Keys }

\* bases of _rpow and arguments of rtob
Bases ==
    { <<>>, FromInt(1), Pow(10, 13), MulSmall(Pow(10, 13), 3),
      Sub(RAY, FromInt(1)), RAY, Add(RAY, FromInt(1)), Rate(1), Rate(5),
      Add(RAY, Sub(TwoTo64, FromInt(1))), Pow(10, 30),
      Sub(Pow(2, 128), FromInt(1)), Pow(2, 128), Pow(2, 255),
      Sub(TwoTo256, FromInt(1)) }

-----------------------------------------------------------------------------
(* The state machine: main() runs once; then one call is made on the        *)
(* emitted contract (its functions are view or pure: a call leaves nothing  *)
(* behind, so one call a behaviour loses nothing).                          *)

VARIABLES
    rates,     \* the parsed mapping bps -> rate
    pc,        \* "start", then "done" (main printed the contract) or "failed"
    stdout,    \* what main printed: the MAX and RATES of the emitted contract
    call,      \* the call made: its function and arguments
    ret        \* its outcome

vars == <<rates, pc, stdout, call, ret>>

NoCall == [fn |-> "none", bps |-> 0, x |-> <<>>, n |-> 0]

Init ==
    /\ rates \in Mappings
    /\ pc = "start"
    /\ stdout = Raised
    /\ call = NoCall
    /\ ret = Revert

\* main(): contract = generate_contract(); print(contract)
Main ==
    /\ pc = "start"
    /\ LET contract == generate_contract(rates)
       IN  IF contract.ok
           THEN pc' = "done" /\ stdout' = contract
           ELSE pc' = "failed" /\ stdout' = stdout
    /\ UNCHANGED <<rates, call, ret>>

Turn(bps) ==
    /\ pc = "done"
    /\ call = NoCall
    /\ call' = [NoCall EXCEPT !.fn = "turn", !.bps = bps]
    /\ ret' = turn(stdout, bps)
    /\ UNCHANGED <<rates, pc, stdout>>

Rtob(ray) ==
    /\ pc = "done"
    /\ call = NoCall
    /\ call' = [NoCall EXCEPT !.fn = "rtob", !.x = ray]
    /\ ret' = rtob(ray)
    /\ UNCHANGED <<rates, pc, stdout>>

\* _rpow is internal: applied directly, as a pure function
Rpow(x, n) ==
    /\ pc = "done"
    /\ call = NoCall
    /\ call' = [NoCall EXCEPT !.fn = "_rpow", !.x = x, !.n = n]
    /\ ret' = _rpow(x, n)
    /\ UNCHANGED <<rates, pc, stdout>>

\* rtob(turn(bps)): the rate turn returns, handed to rtob
RtobTurn(bps) ==
    /\ pc = "done"
    /\ call = NoCall
    /\ LET rate == turn(stdout, bps)
       IN  /\ call' = [NoCall EXCEPT !.fn = "rtob(turn)", !.bps = bps, !.x = rate.val]
           /\ ret' = IF rate.ok THEN rtob(rate.val) ELSE Revert
    /\ UNCHANGED <<rates, pc, stdout>>

\* the generator and the table lookup
Next ==
    \/ Main
    \/ \E bps \in BpsArgs : Turn(bps)

Spec == Init /\ [][Next]_vars

\* the arithmetic of the contract emitted for the well-formed dense table
InitPow ==
    /\ rates = WellFormed(Keys)
    /\ pc = "done"
    /\ stdout = generate_contract(rates)
    /\ call = NoCall
    /\ ret = Revert

\* the exponents _rpow is applied to: the small ones, and rtob's 365 days
Exponents == 0..MaxExp \cup {Year}

NextPow ==
    \/ \E x \in Bases : \E n \in Exponents : Rpow(x, n)
    \/ \E ray \in Bases : Rtob(ray)

SpecPow == InitPow /\ [][NextPow]_vars

\* both directions, on well-formed rates for the keys 0..2 in every combination
InitConv ==
    /\ rates \in { WellFormed(S) : S \in SUBSET (0..2) }
    /\ pc = "start"
    /\ stdout = Raised
    /\ call = NoCall
    /\ ret = Revert

NextConv ==
    \/ Main
    \/ \E bps \in BpsArgs : Turn(bps)
    \/ \E bps \in BpsArgs : RtobTurn(bps)

SpecConv == InitConv /\ [][NextConv]_vars
-----------------------------------------------------------------------------
(* The claims.                                                              *)

\* the number of entries of the mapping
Count == Cardinality(DOMAIN rates)

\* rate - RAY of the entry at position p (0-based) in ascending bps order
DeltaAt(p) == pySub(rates[sorted(DOMAIN rates)[p + 1]], RAY)

\* the bytes of the emitted RATES constant
Blob == hexLiteral(stdout.RATES)

\* the value of the 8-byte field at position p (0-based), most significant byte first
FieldAt(p) == Norm(Reverse(SubSeq(Blob, 8 * p + 1, 8 * p + 8)))

\* C1: for every key bps of the mapping with bps <= MAX, turn(bps) returns exactly
\* the rate the mapping gives for bps (whatever the keys are: gaps, no key 0)
C1_RoundTripByBps ==
    (call.fn = "turn" /\ call.bps \in DOMAIN rates /\ call.bps <= stdout.MAX)
        => ret = Return(rates[call.bps])

\* C2: turn(bps) reverts, returning nothing, for every bps > MAX, and does not
\* revert for any bps <= MAX
C2_RangeRejection ==
    call.fn = "turn" => IF call.bps > stdout.MAX THEN ret = Revert ELSE ret.ok

C2_Witness ==
    call.fn = "turn" /\ call.bps = stdout.MAX + 1 /\ ret = Revert

\* C3: a mapping with an entry whose rate - RAY is outside [0, 2^64 - 1] makes the
\* generator fail, and main prints nothing
C3_EncodingOverflowRejected ==
    (/\ pc # "start"
     /\ \E b \in DOMAIN rates :
            LET d == pySub(rates[b], RAY) IN d.neg \/ pyGe(d, TwoTo64))
        => (pc = "failed" /\ ~stdout.ok)

\* the result the C4 claims give rtob for a yearly rate: round-half-up bps
RtobValue(yearly) ==
    Div(Add(Mul(Sub(yearly, RAY), FromInt(10000)), Div(RAY, FromInt(2))), RAY)

\* C4 as stated: rtob(rate) fails if and only if _rpow(rate, 365 days) fails
C4_FailsOnlyWithRpow ==
    call.fn = "rtob" =>
        LET yearly == _rpow(call.x, Year)
        IN  /\ ret.ok <=> yearly.ok
            /\ (yearly.ok /\ Le(RAY, yearly.val)) => ret = Return(RtobValue(yearly.val))

\* C4 amended: rtob(rate) fails if and only if _rpow(rate, 365 days) fails or its
\* result is below RAY; otherwise it returns
\* floor(((yearly - RAY) * 10000 + RAY/2) / RAY)
C4_FailsWithRpowOrBelowRay ==
    call.fn = "rtob" =>
        LET yearly == _rpow(call.x, Year)
        IN  IF yearly.ok /\ Le(RAY, yearly.val)
            THEN ret = Return(RtobValue(yearly.val))
            ELSE ret = Revert

C4_Witness ==
    call.fn = "rtob" /\ call.x = Rate(5) /\ ret = Return(FromInt(5))

\* C5: the blob of a successful build of n entries is ceil(n/4) * 32 bytes long, its
\* first n fields hold the entries' deltas in ascending bps order, the rest is zero
C5_TableSizeAndLayout ==
    pc = "done" =>
        /\ Count >= 1
        /\ Len(Blob) = ((Count + 3) \div 4) * 32
        /\ \A p \in 0..Count - 1 : ~DeltaAt(p).neg /\ FieldAt(p) = DeltaAt(p).mag
        /\ \A i \in 8 * Count + 1..Len(Blob) : Blob[i] = 0

\* C6: _rpow(RAY, 0) = RAY, _rpow(0, 0) = RAY, _rpow(0, n) = 0 for n > 0, and
\* _rpow(x, 1) = x for every x, without failure
C6_PowIdentities ==
    call.fn = "_rpow" =>
        /\ (call.x = RAY /\ call.n = 0) => ret = Return(RAY)
        /\ (call.x = <<>> /\ call.n = 0) => ret = Return(RAY)
        /\ (call.x = <<>> /\ call.n > 0) => ret = Return(<<>>)
        /\ call.n = 1 => ret = Return(call.x)

C6_Witness ==
    /\ call.fn = "_rpow"
    /\ call.n = 1
    /\ call.x = Sub(TwoTo256, FromInt(1))
    /\ ret = Return(call.x)

\* C7: for every bps in [0, MAX] of a built table, rtob(turn(bps)) succeeds and is
\* within 1 of bps
C7_InverseConsistency ==
    (call.fn = "rtob(turn)" /\ call.bps <= stdout.MAX)
        => /\ ret.ok
           /\ Le(ret.val, FromInt(call.bps + 1))
           /\ Le(FromInt(call.bps), Add(ret.val, FromInt(1)))

\* the square-and-multiply recurrence of C8 in unbounded integers: over says that
\* one of x*x, x*x + RAY/2, z*x, z*x + RAY/2 reached 2^256
RECURSIVE UnboundedLoop(_, _, _)
UnboundedLoop(x, n, z) ==
    IF n = 0 THEN [over |-> FALSE, val |-> z]
    ELSE LET xx == Mul(x, x)
             xr == Add(xx, Div(RAY, FromInt(2)))
             x1 == Div(xr, RAY)
             zx == Mul(z, x1)
             zr == Add(zx, Div(RAY, FromInt(2)))
         IN  IF Le(TwoTo256, xx) \/ Le(TwoTo256, xr) THEN [over |-> TRUE, val |-> <<>>]
             ELSE IF n % 2 = 0 THEN UnboundedLoop(x1, n \div 2, z)
             ELSE IF Le(TwoTo256, zx) \/ Le(TwoTo256, zr) THEN [over |-> TRUE, val |-> <<>>]
             ELSE UnboundedLoop(x1, n \div 2, Div(zr, RAY))

UnboundedPow(x, n) == UnboundedLoop(x, n \div 2, IF n % 2 = 0 THEN RAY ELSE x)

\* C8: _rpow(x, n) fails exactly when a product or a rounded product of the
\* recurrence reaches 2^256, and otherwise returns the recurrence's value
C8_NoTruncatedResult ==
    call.fn = "_rpow" =>
        LET exact == UnboundedPow(call.x, call.n)
        IN  IF exact.over THEN ret = Revert ELSE ret = Return(exact.val)

\* the product z * x overflows although the squaring before it did not
C8_Witness ==
    /\ call.fn = "_rpow"
    /\ call.x = Sub(Pow(2, 128), FromInt(1))
    /\ call.n = 3
    /\ ret = Revert

\* C9: for i < n and i <= MAX, turn(i) returns RAY plus the delta of the i-th entry
\* in ascending bps order, which is the field the packer wrote at position i
C9_PositionalDecode ==
    (call.fn = "turn" /\ call.bps < Count /\ call.bps <= stdout.MAX)
        => /\ ret = Return(Add(RAY, FieldAt(call.bps)))
           /\ ~DeltaAt(call.bps).neg
           /\ ret = Return(Add(RAY, DeltaAt(call.bps).mag))

\* C10: the emitted MAX is the number of packed entries minus one
C10_MaxIsLastIndex ==
    pc = "done" => stdout.MAX = Count - 1
====
